---- MODULE Spec2Model ----
(***************************************************************************)
(* CloCh: the drift-correction / variance-estimation scripts               *)
(* (plotter.py, python_tools/plotter.py, python_tools/plotter_paper.py)    *)
(* and the serial logger (python_tools/logger.py).                         *)
(*                                                                         *)
(* Real numbers are exact rationals [n, d] in lowest terms with d > 0;     *)
(* [n |-> 1, d |-> 0] is numpy's +inf.  Floating-point rounding is not     *)
(* modelled.                                                               *)
(***************************************************************************)
EXTENDS Integers, Sequences, FiniteSets, TLC

(* ---------------------------- bounds ----------------------------------- *)
\* longest measurement series drawn for the analysis scripts
MaxLen == 4
\* largest count drawn for n_ticks (counts come from CountValues)
MaxCount == 10
\* largest small window drawn for WINDOW_SIZE (besides the scripts' own)
MaxWindow == 4
\* longest body (bytes before the newline) of a line the device sends
MaxLineLen == 1
\* number of readline() calls followed in one logger session
MaxReads == 2

(* ----------------------- program constants ----------------------------- *)
\* python_tools/plotter.py: quantization_step = 16
DefaultStep == 16
\* python_tools/plotter.py: WINDOW_SIZE when EXP_NUMBER == 1
WindowExp1 == 25
\* python_tools/plotter.py: WINDOW_SIZE otherwise (EXP_NUMBER = 2)
WindowExp2 == 75
\* python_tools/plotter_paper.py: WINDOW_SIZE = 40
WindowPaper == 40

VARIABLES
    \* ---- analysis scripts ----
    script,             \* which script runs: "moving_average" | "rational" | "none"
    n_ticks,            \* df['n_ticks'].values
    WINDOW_SIZE,        \* moving-average window
    quantization_step,  \* quantization step
    pc,                 \* position in the script
    results,            \* the dict bound inside the try block (name "unset" = unbound)
    stats,              \* the final statistics (lines 69-87)
    report,             \* TRUE once the statistics were printed
    error,              \* the exception that ended the run, "" if none
    stdout,             \* the tagged messages printed by the try/except block
    \* ---- logger ----
    lpc,                \* position in main()
    ctx,                \* which call of connect_to_serial runs: "initial" | "reconnect"
    port_ok,            \* environment: the serial device is present
    ser_open,           \* the Serial object is open
    log_open,           \* log_file is open
    log_buffer,         \* text written to log_file, not yet flushed
    log_disk,           \* contents of data/exp2.csv on disk
    raw,                \* ghost: the readline() result being handled
    data,               \* the decoded, stripped line being handled
    history,            \* ghost: the readline() results whose write was executed
    screen,             \* the last message printed to the screen
    ended_by,           \* how main() ended: "" | "KeyboardInterrupt" | "uncaught KeyboardInterrupt"
    df                  \* what read_csv of data/exp2.csv returned (<<"unread">> before)

avars == <<script, n_ticks, WINDOW_SIZE, quantization_step, pc, results, stats,
           report, error, stdout>>
lvars == <<lpc, ctx, port_ok, ser_open, log_open, log_buffer, log_disk, raw, data,
           history, screen, ended_by, df>>
vars == <<avars, lvars>>

(* ------------------------- exact rationals ----------------------------- *)
Abs(x) == IF x < 0 THEN -x ELSE x

RECURSIVE GCD(_, _)
GCD(a, b) == IF b = 0 THEN a ELSE GCD(b, a % b)

Norm(n, d) ==
    LET g == GCD(Abs(n), d)
    IN  [n |-> (IF n < 0 THEN -(Abs(n) \div g) ELSE n \div g), d |-> d \div g]

FromInt(k) == [n |-> k, d |-> 1]
Zero == FromInt(0)
Inf == [n |-> 1, d |-> 0]
IsInf(x) == x.d = 0

RAdd(x, y) ==
    LET g == GCD(x.d, y.d)
    IN  Norm(x.n * (y.d \div g) + y.n * (x.d \div g), (x.d \div g) * y.d)
RNeg(x) == [n |-> -x.n, d |-> x.d]
RSub(x, y) == RAdd(x, RNeg(y))
RMul(x, y) ==
    LET g1 == GCD(Abs(x.n), y.d)
        g2 == GCD(Abs(y.n), x.d)
        h1 == IF g1 = 0 THEN 1 ELSE g1
        h2 == IF g2 = 0 THEN 1 ELSE g2
    IN  Norm((x.n \div h1) * (y.n \div h2), (x.d \div h2) * (y.d \div h1))
\* x / y for y > 0
RDiv(x, y) == RMul(x, [n |-> y.d, d |-> y.n])
RLess(x, y) == x.n * y.d < y.n * x.d
RPos(x) == x.n > 0

RECURSIVE SumFrom(_, _)
SumFrom(a, k) == IF k > Len(a) THEN Zero ELSE RAdd(a[k], SumFrom(a, k + 1))

(* ------------------------ numpy / pandas helpers ----------------------- *)
Ints2Rats(a) == [i \in 1..Len(a) |-> FromInt(a[i])]

\* np.mean of a non-empty array
np_mean(a) == RDiv(SumFrom(a, 1), FromInt(Len(a)))

\* np.var (ddof = 0): mean(abs(a - a.mean())**2)
np_var(a) ==
    LET m == np_mean(a)
        dev == [i \in 1..Len(a) |-> RMul(RSub(a[i], m), RSub(a[i], m))]
    IN  np_mean(dev)

\* np.sqrt, kept symbolic: the non-negative root of x
np_sqrt(x) == [sq |-> x]

\* a variant without the clamp
py_max0_noclamp(x) == x

\* Python's max(0, x)
py_max0(x) == IF RLess(Zero, x) THEN x ELSE Zero

Clip(v, lo, hi) == IF v < lo THEN lo ELSE IF v > hi THEN hi ELSE v

\* pandas' fixed window with center=True: for the 0-based position i the
\* window is values[start:end], end = i + 1 + offset, start = end - window,
\* offset = (window - 1) // 2, both clipped to [0, N].
\* a variant centring on floor(w/2) samples after the position
window_offset_half(w) == w \div 2

window_offset(w) == (w - 1) \div 2
window_end(i, w, N) == Clip(i + 1 + window_offset(w), 0, N)
window_start(i, w, N) == Clip(i + 1 + window_offset(w) - w, 0, N)

\* Series.rolling(window=w, center=True, min_periods=1).mean().values
rolling_mean(a, w) ==
    [k \in 1..Len(a) |->
        LET s == window_start(k - 1, w, Len(a))
            e == window_end(k - 1, w, Len(a))
        IN  np_mean(SubSeq(a, s + 1, e))]

\* rolling() rejects a window below min_periods = 1 with ValueError
rolling_raises(w) == w < 1

\* a variant that subtracts the baseline without adding the mean back
detrend_plain(a, baseline, mean) ==
    [i \in 1..Len(a) |-> RSub(a[i], baseline[i])]

\* n_ticks - (baseline - mean_n_ticks)
detrend(a, baseline, mean) ==
    [i \in 1..Len(a) |-> RSub(a[i], RSub(baseline[i], mean))]

\* (quantization_step**2) / 12
quantization_variance(step) == Norm(step * step, 12)

\* a variant reporting 0 instead of infinity
R_ratio_zero(mean, var) == IF RLess(Zero, var) THEN RDiv(mean, var) ELSE Zero

\* mean / var if var > 0 else np.inf
R_ratio(mean, var) == IF RLess(Zero, var) THEN RDiv(mean, var) ELSE Inf

\* def rational(x, a, b, c): return a / (x + b) + c    (x + b > 0 here)
rational(x, a, b, c) == RAdd(Norm(a, x + b), FromInt(c))

(* ----------------------------- inputs ---------------------------------- *)
CountValues == {0, 1, MaxCount - 1, MaxCount}
ScenarioA == <<10, 10, 10, 10, 10>>
ScenarioB == <<100, 102, 98, 101, 99>>
\* the non-empty series a data file can hold, and the two series the
\* documentation works through
SeriesSet ==
    UNION {[1..len -> CountValues] : len \in 1..MaxLen} \cup {ScenarioA, ScenarioB}
\* the windows of the scripts, small windows that leave full windows inside
\* a short series, and 0 as the window rolling() rejects
WindowSizes == (0..MaxWindow) \cup {WindowExp1, WindowExp2, WindowPaper}
\* the step of the scripts, and 0 as the configuration no script rejects
QuantSteps == {0, DefaultStep}
\* parameter triples curve_fit may return (b >= 1 keeps x + b > 0)
PoptSet == {<<a, b, c>> : a \in {0, MaxCount}, b \in {1, 2}, c \in {0, 1}}

ResultsUnset ==
    [name |-> "unset", fitted |-> <<>>, detrended |-> <<>>, variance |-> Zero,
     std |-> np_sqrt(Zero)]
StatsUnset ==
    [set |-> FALSE,
     mean_n_ticks |-> Zero, mean_detrended |-> Zero,
     var_original_measured |-> Zero, var_detrended_measured |-> Zero,
     var_original |-> Zero, var_detrended |-> Zero,
     std_original |-> np_sqrt(Zero), std_detrended |-> np_sqrt(Zero),
     R_original |-> Zero, R_detrended |-> Zero]

LoggerIdle ==
    /\ lpc = "not_started" /\ ctx = "initial" /\ port_ok = TRUE
    /\ ser_open = FALSE /\ log_open = FALSE
    /\ log_buffer = <<>> /\ log_disk = <<>> /\ raw = <<>> /\ data = <<>>
    /\ history = <<>> /\ screen = "" /\ ended_by = "" /\ df = <<"unread">>

(* ------------------- the analysis scripts, step by step ---------------- *)
\* lines 19-28: the table is read and the quantization parameters are set
InitAnalysis(which) ==
    /\ script = which
    /\ n_ticks \in SeriesSet
    /\ WINDOW_SIZE \in (IF which = "moving_average" THEN WindowSizes ELSE {0})
    /\ quantization_step \in (IF which = "moving_average" THEN QuantSteps ELSE {DefaultStep})
    /\ pc = "try"
    /\ results = ResultsUnset
    /\ stats = StatsUnset
    /\ report = FALSE
    /\ error = ""
    /\ stdout = <<>>
    /\ LoggerIdle

Init == InitAnalysis("moving_average")
InitFit == InitAnalysis("rational")

\* the body of the try block once the baseline is known
BlockResults(name, baseline) ==
    LET mean_n_ticks == np_mean(Ints2Rats(n_ticks))
        n_ticks_detrended == detrend(Ints2Rats(n_ticks), baseline, mean_n_ticks)
        var_measured == np_var(n_ticks_detrended)
        var_real == py_max0(RSub(var_measured, quantization_variance(quantization_step)))
    IN  [name |-> name, fitted |-> baseline, detrended |-> n_ticks_detrended,
         variance |-> var_real, std |-> np_sqrt(var_real)]

\* python_tools/plotter.py lines 33-59: try: moving average ... except Exception
MovingAverageBlock ==
    /\ script = "moving_average" /\ pc = "try"
    /\ IF rolling_raises(WINDOW_SIZE)
       THEN /\ stdout' = Append(stdout, "Moving average calculation failed")
            /\ UNCHANGED results
       ELSE /\ results' = BlockResults("Moving Average",
                                       rolling_mean(Ints2Rats(n_ticks), WINDOW_SIZE))
            /\ stdout' = Append(stdout, "Moving Average: Variance, Std")
    /\ pc' = "use_results"
    /\ UNCHANGED <<script, n_ticks, WINDOW_SIZE, quantization_step, stats, report, error>>
    /\ UNCHANGED lvars

\* plotter.py lines 30-56: try: curve_fit ... except Exception.  curve_fit
\* either raises (no convergence within maxfev) or returns some popt.
RationalFitBlock ==
    /\ script = "rational" /\ pc = "try"
    /\ \/ /\ stdout' = Append(stdout, "Fit failed")
          /\ UNCHANGED results
       \/ \E popt \in PoptSet :
            /\ results' = BlockResults("Rational",
                   [i \in 1..Len(n_ticks) |-> rational(i - 1, popt[1], popt[2], popt[3])])
            /\ stdout' = Append(stdout, "Rational fit: Variance, Std")
    /\ pc' = "use_results"
    /\ UNCHANGED <<script, n_ticks, WINDOW_SIZE, quantization_step, stats, report, error>>
    /\ UNCHANGED lvars

\* lines 65-67: fitted_line = results['fitted'] ...; NameError when the try
\* block never bound results
UseResults ==
    /\ pc = "use_results"
    /\ IF results.name = "unset"
       THEN /\ error' = "NameError" /\ pc' = "done"
       ELSE /\ pc' = "final_statistics" /\ UNCHANGED error
    /\ UNCHANGED <<script, n_ticks, WINDOW_SIZE, quantization_step, results, stats,
                   report, stdout>>
    /\ UNCHANGED lvars

\* lines 69-87: means, measured and real variances, standard deviations, R
FinalStatistics ==
    /\ pc = "final_statistics"
    /\ LET qv == quantization_variance(quantization_step)
           mean_n_ticks == np_mean(Ints2Rats(n_ticks))
           mean_detrended == np_mean(results.detrended)
           var_original_measured == np_var(Ints2Rats(n_ticks))
           var_detrended_measured == np_var(results.detrended)
           var_original == py_max0(RSub(var_original_measured, qv))
           var_detrended == py_max0(RSub(var_detrended_measured, qv))
       IN  stats' = [set |-> TRUE,
                     mean_n_ticks |-> mean_n_ticks,
                     mean_detrended |-> mean_detrended,
                     var_original_measured |-> var_original_measured,
                     var_detrended_measured |-> var_detrended_measured,
                     var_original |-> var_original,
                     var_detrended |-> var_detrended,
                     std_original |-> np_sqrt(var_original),
                     std_detrended |-> np_sqrt(var_detrended),
                     R_original |-> R_ratio(mean_n_ticks, var_original),
                     R_detrended |-> R_ratio(mean_detrended, var_detrended)]
    /\ pc' = "plot"
    /\ UNCHANGED <<script, n_ticks, WINDOW_SIZE, quantization_step, results, report,
                   error, stdout>>
    /\ UNCHANGED lvars

\* lines 89-139: the figure is drawn, saved and shown
PlotAndSave ==
    /\ pc = "plot"
    /\ pc' = "print"
    /\ UNCHANGED <<script, n_ticks, WINDOW_SIZE, quantization_step, results, stats,
                   report, error, stdout>>
    /\ UNCHANGED lvars

\* lines 141-157: the statistics are printed
PrintStatistics ==
    /\ pc = "print"
    /\ report' = TRUE
    /\ pc' = "done"
    /\ UNCHANGED <<script, n_ticks, WINDOW_SIZE, quantization_step, results, stats,
                   error, stdout>>
    /\ UNCHANGED lvars

Next ==
    \/ MovingAverageBlock
    \/ UseResults
    \/ FinalStatistics
    \/ PlotAndSave
    \/ PrintStatistics

Spec == Init /\ [][Next]_vars

NextFit ==
    \/ RationalFitBlock
    \/ UseResults
    \/ FinalStatistics
    \/ PlotAndSave
    \/ PrintStatistics

SpecFit == InitFit /\ [][NextFit]_vars

(* ------------------------------ logger --------------------------------- *)
\* Bytes are abstracted to four kinds: "d" a printable character, "s" a
\* blank (space, tab, carriage return), "n" the newline, "x" a byte that is
\* not valid UTF-8.
Whitespace == {"s", "n"}
Bodies == UNION {[1..k -> {"d", "s", "x"}] : k \in 0..MaxLineLen}
\* ser.readline() with timeout=1, called when in_waiting > 0: the bytes up to
\* and including the first newline, or the bytes received when the timeout
\* expires before a newline arrives
ReadLines == {Append(b, "n") : b \in Bodies} \cup {b \in Bodies : Len(b) > 0}

\* bytes.decode('utf-8') raises UnicodeDecodeError on an invalid byte
decode_raises(line) == \E i \in 1..Len(line) : line[i] = "x"

RECURSIVE lstrip(_)
lstrip(t) ==
    IF t = <<>> THEN t
    ELSE IF Head(t) \in Whitespace THEN lstrip(Tail(t)) ELSE t
RECURSIVE rstrip(_)
rstrip(t) ==
    IF t = <<>> THEN t
    ELSE IF t[Len(t)] \in Whitespace THEN rstrip(SubSeq(t, 1, Len(t) - 1)) ELSE t

\* str.strip()
strip(t) == rstrip(lstrip(t))

\* the state before main() runs; the analysis scripts are not running
InitLogger ==
    /\ lpc = "not_started" /\ ctx = "initial" /\ port_ok \in BOOLEAN
    /\ ser_open = FALSE /\ log_open = FALSE
    /\ log_buffer = <<>> /\ log_disk = <<>> /\ raw = <<>> /\ data = <<>>
    /\ history = <<>> /\ screen = "" /\ ended_by = "" /\ df = <<"unread">>
    /\ script = "none" /\ n_ticks = <<>> /\ WINDOW_SIZE = 0
    /\ quantization_step = DefaultStep /\ pc = "idle"
    /\ results = ResultsUnset /\ stats = StatsUnset
    /\ report = FALSE /\ error = "" /\ stdout = <<>>

\* line 20: log_file = open('data/exp2.csv', 'a'); line 23 then calls
\* connect_to_serial
OpenLog ==
    /\ lpc = "not_started"
    /\ log_open' = TRUE
    /\ lpc' = "connect"
    /\ UNCHANGED <<ctx, port_ok, ser_open, log_buffer, log_disk, raw, data, history,
                   screen, ended_by, df>>
    /\ UNCHANGED avars

\* a variant of ConnectTry that gives up after a failed attempt
ConnectTryGivesUp ==
    /\ lpc = "connect"
    /\ IF port_ok
       THEN /\ ser_open' = TRUE
            /\ screen' = (IF ctx = "reconnect" THEN "SERIAL RECONNECTED" ELSE "Connected")
            /\ lpc' = "loop"
       ELSE /\ lpc' = "exit"
            /\ UNCHANGED <<ser_open, screen>>
    /\ UNCHANGED <<ctx, port_ok, log_open, log_buffer, log_disk, raw, data, history,
                   ended_by, df>>
    /\ UNCHANGED avars

\* connect_to_serial lines 8-12: one attempt to open the port; on success it
\* returns (and, after a reconnection, lines 62-65 print the notice)
ConnectTry ==
    /\ lpc = "connect"
    /\ IF port_ok
       THEN /\ ser_open' = TRUE
            /\ screen' = (IF ctx = "reconnect" THEN "SERIAL RECONNECTED" ELSE "Connected")
            /\ lpc' = "loop"
       ELSE /\ lpc' = "backoff"
            /\ UNCHANGED <<ser_open, screen>>
    /\ UNCHANGED <<ctx, port_ok, log_open, log_buffer, log_disk, raw, data, history,
                   ended_by, df>>
    /\ UNCHANGED avars

\* connect_to_serial line 13: time.sleep(0.05), then the next attempt
Backoff ==
    /\ lpc = "backoff"
    /\ lpc' = "connect"
    /\ UNCHANGED <<ctx, port_ok, ser_open, log_open, log_buffer, log_disk, raw, data,
                   history, screen, ended_by, df>>
    /\ UNCHANGED avars

\* a variant of SerialLost that also writes the notice to the log file
SerialLostLogged ==
    /\ lpc = "loop" /\ ~port_ok
    /\ ser_open' = FALSE
    /\ screen' = "SERIAL DISCONNECTED"
    /\ log_buffer' = log_buffer \o <<"d", "n">>
    /\ ctx' = "reconnect"
    /\ lpc' = "connect"
    /\ UNCHANGED <<port_ok, log_open, log_disk, raw, data, history, ended_by, df>>
    /\ UNCHANGED avars

\* lines 29-31 raise SerialException on a broken link; lines 44-60: the port
\* is closed, the notice is printed and connect_to_serial is called again
SerialLost ==
    /\ lpc = "loop" /\ ~port_ok
    /\ ser_open' = FALSE
    /\ screen' = "SERIAL DISCONNECTED"
    /\ ctx' = "reconnect"
    /\ lpc' = "connect"
    /\ UNCHANGED <<port_ok, log_open, log_buffer, log_disk, raw, data, history,
                   ended_by, df>>
    /\ UNCHANGED avars

\* lines 29, 40-42: nothing is waiting; time.sleep(0.01)
LoopIdle ==
    /\ lpc = "loop" /\ port_ok
    /\ UNCHANGED lvars
    /\ UNCHANGED avars

\* lines 29-31: data is waiting; readline, decode, strip.  A line that does
\* not decode goes to lines 67-69: a message is printed and the loop goes on.
ReadLine ==
    /\ lpc = "loop" /\ port_ok
    /\ \E line \in ReadLines :
         IF decode_raises(line)
         THEN /\ screen' = "Skipping malformed data"
              /\ UNCHANGED <<lpc, raw, data>>
         ELSE /\ Len(history) < MaxReads
              /\ raw' = line
              /\ data' = strip(line)
              /\ lpc' = "print"
              /\ UNCHANGED screen
    /\ UNCHANGED <<ctx, port_ok, ser_open, log_open, log_buffer, log_disk, history,
                   ended_by, df>>
    /\ UNCHANGED avars

\* line 34: print(data)
PrintData ==
    /\ lpc = "print"
    /\ screen' = "data"
    /\ lpc' = "write"
    /\ UNCHANGED <<ctx, port_ok, ser_open, log_open, log_buffer, log_disk, raw, data,
                   history, ended_by, df>>
    /\ UNCHANGED avars

\* line 34 raises some other Exception (the screen cannot encode the text);
\* lines 71-74: a message is printed, time.sleep(1), and the loop goes on
UnexpectedError ==
    /\ lpc = "print"
    /\ screen' = "Unexpected error"
    /\ lpc' = "loop"
    /\ UNCHANGED <<ctx, port_ok, ser_open, log_open, log_buffer, log_disk, raw, data,
                   history, ended_by, df>>
    /\ UNCHANGED avars

\* line 37: log_file.write(data + '\n')
WriteLog ==
    /\ lpc = "write"
    /\ log_buffer' = log_buffer \o data \o <<"n">>
    /\ history' = Append(history, raw)
    /\ lpc' = "flush"
    /\ UNCHANGED <<ctx, port_ok, ser_open, log_open, log_disk, raw, data, screen,
                   ended_by, df>>
    /\ UNCHANGED avars

\* line 38: log_file.flush()
FlushLog ==
    /\ lpc = "flush"
    /\ log_disk' = log_disk \o log_buffer
    /\ log_buffer' = <<>>
    /\ lpc' = "loop"
    /\ UNCHANGED <<ctx, port_ok, ser_open, log_open, raw, data, history, screen,
                   ended_by, df>>
    /\ UNCHANGED avars

InInitialConnect == ctx = "initial" /\ lpc \in {"connect", "backoff"}

\* Ctrl-C.  Inside the try of lines 25-84 (the read loop, and the
\* reconnection called from the handler) it is caught at line 76 and the
\* finally clause closes the port and the log file.  During the initial
\* connection (line 23, before the try) it leaves main() uncaught.
KeyboardInterrupt ==
    /\ lpc \notin {"not_started", "exit"}
    /\ IF InInitialConnect
       THEN /\ ended_by' = "uncaught KeyboardInterrupt"
            /\ UNCHANGED <<ser_open, log_open, log_buffer, log_disk, screen>>
       ELSE /\ ended_by' = "KeyboardInterrupt"
            /\ screen' = "Stopping..."
            /\ ser_open' = FALSE
            /\ log_disk' = log_disk \o log_buffer
            /\ log_buffer' = <<>>
            /\ log_open' = FALSE
    /\ lpc' = "exit"
    /\ UNCHANGED <<ctx, port_ok, raw, data, history, df>>
    /\ UNCHANGED avars

\* environment: the device is unplugged / plugged back
PortDown ==
    /\ port_ok /\ port_ok' = FALSE
    /\ UNCHANGED <<lpc, ctx, ser_open, log_open, log_buffer, log_disk, raw, data,
                   history, screen, ended_by, df>>
    /\ UNCHANGED avars
PortUp ==
    /\ ~port_ok /\ port_ok' = TRUE
    /\ UNCHANGED <<lpc, ctx, ser_open, log_open, log_buffer, log_disk, raw, data,
                   history, screen, ended_by, df>>
    /\ UNCHANGED avars

\* python_tools/plotter.py line 20 with EXP_NUMBER = 2: the analysis script,
\* started at any moment, reads data/exp2.csv as it is on disk
PlotterReadCsv ==
    /\ df = <<"unread">>
    /\ df' = log_disk
    /\ UNCHANGED <<lpc, ctx, port_ok, ser_open, log_open, log_buffer, log_disk, raw,
                   data, history, screen, ended_by>>
    /\ UNCHANGED avars

LoggerStep ==
    \/ OpenLog
    \/ ConnectTry
    \/ Backoff
    \/ SerialLost
    \/ LoopIdle
    \/ ReadLine
    \/ PrintData
    \/ UnexpectedError
    \/ WriteLog
    \/ FlushLog

NextLogger ==
    \/ LoggerStep
    \/ KeyboardInterrupt
    \/ PortDown
    \/ PortUp
    \/ PlotterReadCsv

SpecLogger == InitLogger /\ [][NextLogger]_vars

\* the interpreter keeps running main() until it returns
SpecLoggerFair == SpecLogger /\ WF_vars(LoggerStep)

(* ======================= properties: analysis ========================== *)
Computed == stats.set
Two == FromInt(2)
InvalidConfiguration == quantization_step <= 0 \/ WINDOW_SIZE <= 0

\* population variance from pairwise differences:
\* sum_i sum_j (a[i] - a[j])^2 / (2 N^2)
SqDiff(x, y) == RMul(RSub(x, y), RSub(x, y))
PairSum(a) ==
    SumFrom([i \in 1..Len(a) |-> SumFrom([j \in 1..Len(a) |-> SqDiff(a[i], a[j])], 1)], 1)
PopulationVariance(a) == RDiv(PairSum(a), FromInt(2 * Len(a) * Len(a)))

\* mean of the samples of a at the positions in S (S non-empty)
RECURSIVE SumOver(_, _)
SumOver(a, S) ==
    IF S = {} THEN Zero
    ELSE LET j == CHOOSE x \in S : TRUE IN RAdd(a[j], SumOver(a, S \ {j}))
MeanOver(a, S) == RDiv(SumOver(a, S), FromInt(Cardinality(S)))

C2_VarianceCorrection ==
    Computed =>
        LET qv == Norm(quantization_step * quantization_step, 12)
            Real(v) == IF RLess(qv, v) THEN RSub(v, qv) ELSE Zero
            mo == PopulationVariance(Ints2Rats(n_ticks))
            md == PopulationVariance(results.detrended)
        IN  /\ stats.var_original_measured = mo
            /\ stats.var_detrended_measured = md
            /\ stats.var_original = Real(mo)
            /\ stats.var_detrended = Real(md)
            /\ results.variance = Real(md)
            /\ ~RLess(stats.var_original, Zero)
            /\ ~RLess(stats.var_detrended, Zero)
            /\ (stats.var_original = Zero) <=> ~RLess(qv, mo)
            /\ (stats.var_detrended = Zero) <=> ~RLess(qv, md)

\* the clamp acts on the detrended series while the raw series keeps a
\* positive real variance
C2_Witness ==
    /\ Computed /\ quantization_step = DefaultStep
    /\ RPos(stats.var_detrended_measured)
    /\ RLess(stats.var_detrended_measured, quantization_variance(quantization_step))
    /\ stats.var_detrended = Zero
    /\ RPos(stats.var_original)

\* C3: for valid input (step > 0, window >= 1, non-empty series of
\* non-negative counts) each ratio mean / real_variance is +infinity exactly
\* when the real variance is 0 and a finite, strictly positive number
\* otherwise; [10,10,10,10,10] with step 16 gives measured variance 0, real
\* variance 0, real std 0 and ratio +infinity.
C3_Ratio ==
    (Computed /\ ~InvalidConfiguration) =>
        /\ IsInf(stats.R_original) <=> (stats.var_original = Zero)
        /\ IsInf(stats.R_detrended) <=> (stats.var_detrended = Zero)
        /\ stats.var_original # Zero =>
               /\ RPos(stats.R_original)
               /\ stats.R_original = RDiv(stats.mean_n_ticks, stats.var_original)
        /\ stats.var_detrended # Zero =>
               /\ RPos(stats.R_detrended)
               /\ stats.R_detrended = RDiv(stats.mean_detrended, stats.var_detrended)
        /\ (n_ticks = ScenarioA /\ quantization_step = 16) =>
               /\ stats.var_original_measured = Zero
               /\ stats.var_original = Zero
               /\ stats.std_original = np_sqrt(Zero)
               /\ stats.R_original = Inf

\* one run showing both regimes: a finite ratio for the raw series and an
\* infinite one for the detrended series
C3_Witness ==
    /\ Computed /\ ~InvalidConfiguration
    /\ stats.var_original # Zero /\ ~IsInf(stats.R_original)
    /\ stats.var_detrended = Zero /\ IsInf(stats.R_detrended)

\* C4 (as claimed): the baseline at position k is the mean of the in-bounds
\* samples among k - floor(w/2) .. k + floor(w/2), for even and odd w.
C4_SymmetricWindow ==
    (results.name = "Moving Average" /\ ~InvalidConfiguration) =>
        \A k \in 1..Len(n_ticks) :
            results.fitted[k] =
                MeanOver(Ints2Rats(n_ticks),
                         {j \in 1..Len(n_ticks) :
                             /\ k - (WINDOW_SIZE \div 2) <= j
                             /\ j <= k + (WINDOW_SIZE \div 2)})

\* C4 (amended): the baseline at position k is the mean of the in-bounds
\* samples among k - floor(w/2) .. k + floor((w-1)/2): w positions, which for
\* odd w is floor(w/2) on each side and for even w is w/2 before and w/2 - 1
\* after; out-of-bounds positions are left out, never counted as zero or
\* wrapped.  For [100,102,98,101,99] and w = 3, baseline[0] = 101 and
\* baseline[2] = 301/3.
C4_Window ==
    results.name = "Moving Average" =>
        /\ Len(results.fitted) = Len(n_ticks)
        /\ \A k \in 1..Len(n_ticks) :
            results.fitted[k] =
                MeanOver(Ints2Rats(n_ticks),
                         {j \in 1..Len(n_ticks) :
                             /\ k - (WINDOW_SIZE \div 2) <= j
                             /\ j <= k + ((WINDOW_SIZE - 1) \div 2)})
        /\ (n_ticks = ScenarioB /\ WINDOW_SIZE = 3) =>
               /\ results.fitted[1] = FromInt(101)
               /\ results.fitted[3] = Norm(301, 3)

\* an even window whose baseline differs from the symmetric reading
C4_Witness ==
    /\ results.name = "Moving Average"
    /\ WINDOW_SIZE = 2 /\ Len(n_ticks) = 3
    /\ results.fitted[1] = FromInt(n_ticks[1])
    /\ n_ticks[1] # n_ticks[2]

FitFailed == Len(stdout) > 0 /\ stdout[1] = "Fit failed"

\* C5: once the rational fit has failed the run is over with that fit
\* failure as its error; nothing after the try block runs.
C5_FitFailureSurfaced ==
    (script = "rational" /\ FitFailed) => (pc = "done" /\ error = "FitDivergence")

\* C6: with a non-positive window or quantization step the run stops with an
\* invalid-configuration error before anything is computed or reported.
C6_FailFast ==
    InvalidConfiguration =>
        /\ results.name = "unset" /\ ~stats.set /\ ~report
        /\ pc = "done" => error = "InvalidConfiguration"

(* ======================== properties: logger =========================== *)
LogText == log_disk \o log_buffer

\* the records of a newline-terminated text, without their newlines
RECURSIVE SplitFrom(_, _, _)
SplitFrom(t, k, cur) ==
    IF k > Len(t) THEN <<>>
    ELSE IF t[k] = "n" THEN <<cur>> \o SplitFrom(t, k + 1, <<>>)
    ELSE SplitFrom(t, k + 1, Append(cur, t[k]))
SplitLines(t) == SplitFrom(t, 1, <<>>)
NewlineTerminated(t) == t = <<>> \/ t[Len(t)] = "n"

\* r is line with the blanks and newline around it removed
IsStripOf(r, line) ==
    \E i \in 0..Len(line) : \E j \in i..Len(line) :
        /\ r = SubSeq(line, i + 1, j)
        /\ \A p \in 1..i : line[p] \in Whitespace
        /\ \A p \in (j + 1)..Len(line) : line[p] \in Whitespace
        /\ r # <<>> => (r[1] \notin Whitespace /\ r[Len(r)] \notin Whitespace)

\* C7: a broken link in the read loop closes the port and starts the retry
\* loop, which never gives up: a failed attempt is followed by the backoff and
\* the backoff by another attempt, the log file stays open and unchanged, and
\* main() ends by a keyboard interrupt only; if the port becomes openable and
\* stays so, every reconnection reaches the read loop again (or is
\* interrupted from the keyboard).
C7_Reconnect ==
    /\ [][(lpc = "loop" /\ lpc' = "connect") =>
            (~ser_open' /\ ctx' = "reconnect" /\ log_open' /\ LogText' = LogText)]_vars
    /\ [][(lpc = "connect" /\ lpc' # "connect") =>
            (lpc' \in {"loop", "backoff"} \/ ended_by' # "")]_vars
    /\ [][(lpc = "backoff" /\ lpc' # "backoff") =>
            (lpc' = "connect" \/ ended_by' # "")]_vars
    /\ [][lpc' = "exit" => ended_by' \in {"KeyboardInterrupt", "uncaught KeyboardInterrupt"}]_vars
    /\ [][(ctx = "reconnect" /\ lpc \in {"connect", "backoff"} /\ ended_by' = "")
            => (log_open' /\ LogText' = LogText)]_vars
    /\ (<>[]port_ok) =>
          [](lpc \in {"connect", "backoff"} =>
                <>((lpc = "loop" /\ ser_open /\ log_open) \/ lpc = "exit"))

\* the logger is back in the read loop after a reconnection, with a record
\* written before the link broke still in the log
C7_Witness ==
    /\ lpc = "loop" /\ ctx = "reconnect" /\ ser_open /\ log_open /\ port_ok
    /\ screen = "SERIAL RECONNECTED"
    /\ Len(history) >= 1

C9_Isolation == [][df' # df => ~log_open]_vars

\* C10: when main() has ended, the log file and the serial port are closed.
C10_Cleanup == lpc = "exit" => (~log_open /\ ~ser_open)

====
